---------------------------- MODULE Spec2Model ----------------------------
(***************************************************************************)
(* A model of the outlet catchment builder (scripts/process_proximity.py)  *)
(* and of the semantic retrieval used by the chat endpoint (api/chat.py,   *)
(* main.py, utils/embedding.py) over the tables declared in models.py.     *)
(*                                                                         *)
(* Numbers.  TLC has 32-bit integers and no reals, so the floating-point   *)
(* arithmetic of haversine is carried out in fixed point:                  *)
(*   - latitude and longitude are in hundredths of a degree,               *)
(*   - angles are in micro-radians, sines and cosines in millionths,       *)
(*   - distances (distance_km) are in thousandths of a kilometre.          *)
(* The series used for sin, cos and asin are those of the math library     *)
(* truncated after the second (third for cos) term, which is exact to the  *)
(* resolution above for the coordinates the model uses (a few degrees of   *)
(* latitude, differences below a fifth of a degree).                       *)
(***************************************************************************)
EXTENDS Integers, Sequences, FiniteSets, TLC

\* ------------------------------------------------------------------ bounds
\* number of rows of the outlets table
NumOutlets == 3
\* the coordinates outlets can have lie on a (GridMax+1) x 2 grid
GridMax == 1
\* builder runs (invocations of the script) per process
MaxRuns == 2
\* builder processes that can run at the same time
NumProcs == 2
\* in-place changes of an outlet's coordinates by the ingestion side
MaxMoves == 1
\* runs of the vector upload script per process
MaxUploads == 1
\* records in the data file given to insert_outlets
MaxRecords == 2

\* A nullable column holds None or Some(value).
None == <<>>
Some(x) == <<x>>

Outlets == 1 .. NumOutlets
Procs == 1 .. NumProcs

\* The spec's example places A(3.15,101.70) and neighbours 0.04 degrees apart:
\* neighbours along an axis are about 4.4 km apart, diagonal ones about 6.3 km.
Places ==
  { [latitude |-> Some(315 + 4 * a), longitude |-> Some(10170 + 4 * b)] :
      a \in 0 .. GridMax, b \in 0 .. 1 }

\* An outlet row may lack both coordinates, or only its latitude
\* (both columns are nullable independently, models.py).
Positions ==
  Places \cup { [latitude |-> None, longitude |-> None],
                [latitude |-> None, longitude |-> Some(10170)] }

VARIABLES
  outlets,          \* table outlets: id -> row
  proximities,      \* table outlet_proximities, committed rows in insertion order
  vectors,          \* table outlet_vectors, committed rows in insertion order
  moves,            \* number of in-place coordinate changes so far
  pc,               \* builder: position of each process
  runs,             \* builder: runs started by each process
  loaded,           \* builder: the outlets list loaded at line 23
  si,               \* builder: index of `source` in the outer loop
  ti,               \* builder: index of `target` in the inner loop
  pending,          \* builder: rows db.add()-ed to the session, not yet committed
  inserted_count,   \* builder: inserted_count
  chatPc,           \* retrieval: position of the call
  variant,          \* retrieval: which of the two copies of the function runs
  storeMode,        \* retrieval: what the backing store does during the call
  providerFailed,   \* retrieval: the embedding provider call failed
  query_embedding,  \* retrieval: query_embedding
  rows,             \* retrieval: the rows of `result`, as outlet ids
  result,           \* retrieval: the text returned
  upc,              \* vector upload: position of each process
  uruns,            \* vector upload: runs started by each process
  uloaded,          \* vector upload: the outlets list loaded at line 66
  uidx,             \* vector upload: index of `outlet` in the loop
  udeleted,         \* vector upload: rows deleted in the open transaction
  urecord,          \* vector upload: the vector_record added to the session
  ulog,             \* vector upload: what logger.error reported, per process
  catchment_id,     \* catchment: outlet_id of the last request
  catchment,        \* catchment: the list get_catchment returned
  ipc,              \* ingestion: position of insert_outlets
  idata,            \* ingestion: the records passed as `data`
  ipending          \* ingestion: the Outlet objects db.add()-ed, not yet committed

dbVars == <<outlets, proximities, vectors, moves>>
builderVars == <<pc, runs, loaded, si, ti, pending, inserted_count>>
chatVars == <<chatPc, variant, storeMode, providerFailed, query_embedding, rows, result>>
uploadVars == <<upc, uruns, uloaded, uidx, udeleted, urecord, ulog>>
catchVars == <<catchment_id, catchment>>
ingestVars == <<ipc, idata, ipending>>
vars == <<dbVars, builderVars, chatVars, uploadVars, catchVars, ingestVars>>

\* ---------------------------------------------------------------- haversine
RECURSIVE SqrtSearch(_, _, _)
SqrtSearch(lo, hi, a) ==
  IF lo >= hi THEN lo
  ELSE LET mid == (lo + hi + 1) \div 2
       IN  IF mid * mid <= a THEN SqrtSearch(mid, hi, a)
           ELSE SqrtSearch(lo, mid - 1, a)

\* math.sqrt on a value in 1e-12 units, result in 1e-6 units
sqrt(a) == SqrtSearch(0, 40000, a)

Abs(x) == IF x < 0 THEN -x ELSE x

\* math.radians: hundredths of a degree to micro-radians (pi/180 = 0.0174533)
radians(d) ==
  IF d < 0 THEN -((Abs(d) * 17453) \div 100) ELSE (d * 17453) \div 100

\* math.sin of x micro-radians, in millionths: x - x^3/6
sin(x) == x - (((x * x) \div 1000000) * x) \div 6000000

\* math.cos of x micro-radians, in millionths: 1 - x^2/2 + x^4/24
cos(x) ==
  LET y  == x \div 10
      x2 == (y * y) \div 10000
  IN  1000000 - (x2 \div 2) + (((x2 * x2) \div 1000000) \div 24)

\* math.asin of s millionths, in micro-radians: s + s^3/6
asin(s) == s + (((s * s) \div 1000000) * s) \div 6000000

haversine(lat1, lon1, lat2, lon2) ==
  LET R    == 6371
      dlat == radians(lat2 - lat1)
      dlon == radians(lon2 - lon1)
      sdlat == sin(dlat \div 2)
      sdlon == sin(dlon \div 2)
      cc   == ((cos(radians(lat1)) \div 100) * (cos(radians(lat2)) \div 100)) \div 10000
      a    == sdlat * sdlat + (cc * ((sdlon * sdlon) \div 100)) \div 100
      c    == 2 * asin(sqrt(a))
  IN  (R * c) \div 1000

CATCHMENT_RADIUS_KM == 5

\* ------------------------------------------------------------------- tables
\* Outlet rows differ in the columns the operations read.
OutletRow(o, pos, svc) ==
  [id |-> o, name |-> "McDonald's " \o ToString(o), address |-> "Jalan " \o ToString(o),
   services |-> svc, latitude |-> pos.latitude, longitude |-> pos.longitude]

\* db.query(Outlet).filter(Outlet.latitude != None, Outlet.longitude != None).all()
RECURSIVE QualifyingFrom(_, _)
QualifyingFrom(tbl, o) ==
  IF o > NumOutlets THEN <<>>
  ELSE (IF tbl[o].latitude # None /\ tbl[o].longitude # None
        THEN <<tbl[o]>> ELSE <<>>) \o QualifyingFrom(tbl, o + 1)

QualifyingOutlets(tbl) == QualifyingFrom(tbl, 1)

\* The existence check with both filters on the source id.
EdgeExistsSourceTwice(store, source_id, target_id) ==
  \E k \in 1 .. Len(store) :
    /\ store[k].outlet_id = source_id
    /\ store[k].intersecting_outlet_id = source_id

\* db.query(OutletProximity).filter_by(outlet_id=.., intersecting_outlet_id=..).first()
\* The session has autoflush off, so the query sees committed rows only.
EdgeExists(store, source_id, target_id) ==
  \E k \in 1 .. Len(store) :
    /\ store[k].outlet_id = source_id
    /\ store[k].intersecting_outlet_id = target_id

OutletProximity(source_id, target_id, distance) ==
  [outlet_id |-> source_id, intersecting_outlet_id |-> target_id,
   distance_km |-> distance]

\* The test without the `source.id == target.id` skip.
ShouldInsertSelf(source, target, store) ==
  /\ haversine(source.latitude[1], source.longitude[1],
               target.latitude[1], target.longitude[1]) <= CATCHMENT_RADIUS_KM * 1000
  /\ ~EdgeExists(store, source.id, target.id)

\* Lines 30-38: is a row added for this (source, target)?
ShouldInsert(source, target, store) ==
  /\ source.id # target.id
  /\ haversine(source.latitude[1], source.longitude[1],
               target.latitude[1], target.longitude[1]) <= CATCHMENT_RADIUS_KM * 1000
  /\ ~EdgeExists(store, source.id, target.id)

\* ------------------------------------------------------------------ builder
\* Lines 22-26: open a session, load the outlets that have coordinates.
BuilderStart(p) ==
  /\ pc[p] \in {"idle", "done", "failed"}
  /\ runs[p] < MaxRuns
  /\ runs' = [runs EXCEPT ![p] = @ + 1]
  /\ loaded' = [loaded EXCEPT ![p] = QualifyingOutlets(outlets)]
  /\ si' = [si EXCEPT ![p] = 1]
  /\ ti' = [ti EXCEPT ![p] = 1]
  /\ pending' = [pending EXCEPT ![p] = <<>>]
  /\ inserted_count' = [inserted_count EXCEPT ![p] = 0]
  /\ pc' = [pc EXCEPT ![p] = IF QualifyingOutlets(outlets) = <<>> THEN "commit" ELSE "loop"]
  /\ UNCHANGED <<dbVars, chatVars, uploadVars, catchVars, ingestVars>>

\* Lines 29-44: one iteration of the inner loop.
BuilderStep(p) ==
  /\ pc[p] = "loop"
  /\ LET n      == Len(loaded[p])
         source == loaded[p][si[p]]
         target == loaded[p][ti[p]]
         add    == ShouldInsert(source, target, proximities)
         distance == haversine(source.latitude[1], source.longitude[1],
                               target.latitude[1], target.longitude[1])
     IN  /\ pending' = [pending EXCEPT ![p] =
                          IF add THEN Append(@, OutletProximity(source.id, target.id, distance))
                          ELSE @]
         /\ inserted_count' = [inserted_count EXCEPT ![p] = IF add THEN @ + 1 ELSE @]
         /\ ti' = [ti EXCEPT ![p] = IF @ < n THEN @ + 1 ELSE 1]
         /\ si' = [si EXCEPT ![p] = IF ti[p] < n THEN @ ELSE @ + 1]
         /\ pc' = [pc EXCEPT ![p] = IF ti[p] = n /\ si[p] = n THEN "commit" ELSE "loop"]
  /\ UNCHANGED <<dbVars, runs, loaded, chatVars, uploadVars, catchVars, ingestVars>>

\* Line 46: db.commit() flushes the pending rows and commits them in one
\* transaction.
BuilderCommit(p) ==
  /\ pc[p] = "commit"
  /\ proximities' = proximities \o pending[p]
  /\ pending' = [pending EXCEPT ![p] = <<>>]
  /\ pc' = [pc EXCEPT ![p] = "done"]
  /\ UNCHANGED <<outlets, vectors, moves, runs, loaded, si, ti, inserted_count, chatVars, uploadVars, catchVars, ingestVars>>

\* A failure path that still flushes and commits what the session holds.
BuilderFailCommits(p) ==
  /\ pc[p] \in {"loop", "commit"}
  /\ proximities' = proximities \o pending[p]
  /\ pending' = [pending EXCEPT ![p] = <<>>]
  /\ pc' = [pc EXCEPT ![p] = "failed"]
  /\ UNCHANGED <<outlets, vectors, moves, runs, loaded, si, ti, inserted_count, chatVars, uploadVars, catchVars, ingestVars>>

\* An exception anywhere in lines 28-46 (a computation error, the store going
\* away, the commit failing) ends the script; get_db closes the session and
\* the rows added to it are discarded.
BuilderFail(p) ==
  /\ pc[p] \in {"loop", "commit"}
  /\ pending' = [pending EXCEPT ![p] = <<>>]
  /\ pc' = [pc EXCEPT ![p] = "failed"]
  /\ UNCHANGED <<dbVars, runs, loaded, si, ti, inserted_count, chatVars, uploadVars, catchVars, ingestVars>>

\* The ingestion side changes the coordinates of an outlet row in place
\* (latitude and longitude are plain nullable columns; updated_at records it).
UpdateCoords(o, pos) ==
  /\ moves < MaxMoves
  /\ pos # [latitude |-> outlets[o].latitude, longitude |-> outlets[o].longitude]
  /\ outlets' = [outlets EXCEPT ![o].latitude = pos.latitude,
                                ![o].longitude = pos.longitude]
  /\ moves' = moves + 1
  /\ UNCHANGED <<proximities, vectors, builderVars, chatVars, uploadVars, catchVars, ingestVars>>

\* ------------------------------------------------------------ initial states
BuilderIdle ==
  /\ pc = [p \in Procs |-> "idle"]
  /\ runs = [p \in Procs |-> 0]
  /\ loaded = [p \in Procs |-> <<>>]
  /\ si = [p \in Procs |-> 1]
  /\ ti = [p \in Procs |-> 1]
  /\ pending = [p \in Procs |-> <<>>]
  /\ inserted_count = [p \in Procs |-> 0]

ChatIdle ==
  /\ chatPc = "idle"
  /\ variant = "api"
  /\ storeMode = "healthy"
  /\ providerFailed = FALSE
  /\ query_embedding = <<>>
  /\ rows = <<>>
  /\ result = ""

UploadIdle ==
  /\ upc = [p \in Procs |-> "idle"]
  /\ uruns = [p \in Procs |-> 0]
  /\ uloaded = [p \in Procs |-> <<>>]
  /\ uidx = [p \in Procs |-> 1]
  /\ udeleted = [p \in Procs |-> {}]
  /\ urecord = [p \in Procs |-> None]
  /\ ulog = [p \in Procs |-> <<>>]

CatchIdle ==
  /\ catchment_id = 0
  /\ catchment = <<>>

IngestIdle ==
  /\ ipc = "idle"
  /\ idata = <<>>
  /\ ipending = <<>>

\* Outlets as ingested, at any positions; no derived data yet.
InitBuild ==
  /\ \E f \in [Outlets -> Positions] :
       outlets = [o \in Outlets |-> OutletRow(o, f[o], None)]
  /\ proximities = <<>>
  /\ vectors = <<>>
  /\ moves = 0
  /\ BuilderIdle
  /\ ChatIdle
  /\ UploadIdle
  /\ CatchIdle
  /\ IngestIdle

\* One builder process, run after run, nothing else touching the store.
NextSeq ==
  \/ BuilderStart(1)
  \/ BuilderStep(1)
  \/ BuilderCommit(1)

SpecSeq == InitBuild /\ [][NextSeq]_vars

\* One builder process whose runs can fail.
NextFail ==
  \/ BuilderStart(1)
  \/ BuilderStep(1)
  \/ BuilderCommit(1)
  \/ BuilderFail(1)

SpecFail == InitBuild /\ [][NextFail]_vars

\* One builder process, run after run; between runs outlet coordinates change.
NextBuild ==
  \/ BuilderStart(1)
  \/ BuilderStep(1)
  \/ BuilderCommit(1)
  \/ \E o \in Outlets, pos \in Positions :
       pc[1] \in {"idle", "done"} /\ UpdateCoords(o, pos)

SpecBuild == InitBuild /\ [][NextBuild]_vars

\* Builder processes running at the same time against one store.
NextConc ==
  \E p \in Procs :
    \/ BuilderStart(p)
    \/ BuilderStep(p)
    \/ BuilderCommit(p)

SpecConc == InitBuild /\ [][NextConc]_vars

\* ------------------------------------------------------- claims: the builder
HasCoords(o) == outlets[o].latitude # None /\ outlets[o].longitude # None

Distance(a, b) ==
  haversine(outlets[a].latitude[1], outlets[a].longitude[1],
            outlets[b].latitude[1], outlets[b].longitude[1])

Stored(a, b) ==
  \E k \in 1 .. Len(proximities) :
    proximities[k].outlet_id = a /\ proximities[k].intersecting_outlet_id = b

\* C1: after a first builder run on an empty edge store has completed, for
\* all distinct outlets a, b with coordinates, both (a,b) and (b,a) are stored
\* when distance(a,b) <= 5.0 km, neither is stored when it is > 5.0 km, and no
\* stored edge has source = target.
C1_FirstBuildExact ==
  (pc[1] = "done" /\ runs[1] = 1) =>
    /\ \A a, b \in Outlets :
         (a # b /\ HasCoords(a) /\ HasCoords(b)) =>
           /\ Distance(a, b) <= 5000 => (Stored(a, b) /\ Stored(b, a))
           /\ Distance(a, b) > 5000 => (~Stored(a, b) /\ ~Stored(b, a))
    /\ \A k \in 1 .. Len(proximities) :
         proximities[k].outlet_id # proximities[k].intersecting_outlet_id

\* A first build completed over outlets of which one pair is within the
\* radius and another is beyond it.
C1_Witness ==
  /\ pc[1] = "done" /\ runs[1] = 1
  /\ \E a, b, c \in Outlets :
       /\ a # b /\ a # c /\ HasCoords(a) /\ HasCoords(b) /\ HasCoords(c)
       /\ Distance(a, b) <= 5000 /\ Stored(a, b) /\ Stored(b, a)
       /\ Distance(a, c) > 5000

\* C2: a builder run that follows a completed run over the same outlets
\* commits no new edge: the edge store is the same after it, and its
\* inserted_count is 0.
C2_RerunInsertsNothing ==
  [][(pc[1] = "commit" /\ pc'[1] = "done" /\ runs[1] >= 2) =>
       (proximities' = proximities /\ inserted_count[1] = 0)]_vars

\* A second run completed over a store that holds edges.
C2_Witness ==
  pc[1] = "done" /\ runs[1] = 2 /\ Len(proximities) >= 2 /\ inserted_count[1] = 0

\* C3: the committed edge store never holds two rows for the same ordered
\* pair (source, target), also when builder runs execute concurrently.
C3_NoDuplicateEdges ==
  \A k, l \in 1 .. Len(proximities) :
    (k # l) =>
      \/ proximities[k].outlet_id # proximities[l].outlet_id
      \/ proximities[k].intersecting_outlet_id # proximities[l].intersecting_outlet_id

\* C4: the committed edge store changes only by the commit of a run, which
\* adds all the rows that run inserted at once; a run that fails leaves the
\* store as it was.
C4_AllOrNothing ==
  [][/\ (pc[1] # "failed" /\ pc'[1] = "failed") => proximities' = proximities
     /\ (proximities' # proximities) =>
          /\ pc[1] = "commit" /\ pc'[1] = "done"
          /\ Len(pending[1]) = inserted_count[1]
          /\ proximities' = proximities \o pending[1]]_vars

\* A run failed after it had added rows to its session, and the store holds
\* none of them.
C4_Witness ==
  pc[1] = "failed" /\ inserted_count[1] > 0 /\ runs[1] = 1 /\ proximities = <<>>

\* C5: after a completed builder run over the current outlets, every stored
\* edge has source # target, a current distance <= 5.0 km, and a stored
\* distance_km equal to the distance recomputed from the current coordinates.
C5_EdgesCurrent ==
  (pc[1] = "done" /\ loaded[1] = QualifyingOutlets(outlets)) =>
    \A k \in 1 .. Len(proximities) :
      LET e == proximities[k]
      IN  /\ e.outlet_id # e.intersecting_outlet_id
          /\ HasCoords(e.outlet_id) /\ HasCoords(e.intersecting_outlet_id)
          /\ Distance(e.outlet_id, e.intersecting_outlet_id) <= 5000
          /\ e.distance_km = Distance(e.outlet_id, e.intersecting_outlet_id)

\* ------------------------------------------------------------ text rendering
\* sep.join(parts)
RECURSIVE join(_, _)
join(sep, parts) ==
  IF parts = <<>> THEN ""
  ELSE IF Len(parts) = 1 THEN parts[1]
  ELSE parts[1] \o sep \o join(sep, Tail(parts))

\* `x or []` for a nullable JSON list
OrEmpty(svc) == IF svc = None THEN <<>> ELSE svc[1]

\* Python truth of a nullable JSON list: None and [] are false
Truthy(svc) == svc # None /\ svc[1] # <<>>

\* api/chat.py lines 69-71: the record of one row of the ranked result
RankedLine(row) ==
  (row.name \o ", Address: " \o row.address)
    \o (IF Truthy(row.services)
        THEN ", Services: " \o join(", ", row.services[1]) ELSE "")

\* api/chat.py line 86: the record of one outlet in the fallback listing
FallbackLine(o) ==
  o.name \o ", Address: " \o o.address \o ", Services: "
    \o join(", ", OrEmpty(o.services))

\* db.query(Outlet).all()
AllOutlets(tbl) == [o \in Outlets |-> tbl[o]]

\* api/chat.py lines 84-88
FullListing(tbl) ==
  join("\n", [k \in 1 .. NumOutlets |-> FallbackLine(AllOutlets(tbl)[k])])

NO_RELEVANT == "No particularly relevant outlets found."

\* ----------------------------------------------------------------- summaries
explanations ==
  [s \in {"24 Hours", "Drive-Thru", "McCafe", "WiFi", "Birthday Party",
          "Electric Vehicle", "Surau", "Digital Order Kiosk",
          "Cashless Facility", "Dessert Center", "Breakfast", "McDelivery"} |->
     CASE s = "24 Hours" -> "It operates 24 hours, ideal for late-night meals."
       [] s = "Drive-Thru" -> "Drive-Thru is available for quick service from your vehicle."
       [] s = "McCafe" -> "You can enjoy coffee and desserts from McCafe."
       [] s = "WiFi" -> "Free WiFi is provided for customers."
       [] s = "Birthday Party" -> "Birthday party packages are available for celebrations."
       [] s = "Electric Vehicle" -> "Electric vehicle charging stations are available."
       [] s = "Surau" -> "There is a Surau (prayer room) on-site."
       [] s = "Digital Order Kiosk" -> "It features a digital kiosk for self-service ordering."
       [] s = "Cashless Facility" -> "Cashless payments are accepted."
       [] s = "Dessert Center" -> "You can get ice cream and desserts at the Dessert Center."
       [] s = "Breakfast" -> "Breakfast items are available during morning hours."
       [] s = "McDelivery" -> "Delivery service is available via McDelivery."]

\* The explanation sentences in the order of the table's keys.
ExplainInTableOrder(services) ==
  LET keys == <<"24 Hours", "Drive-Thru", "McCafe", "WiFi", "Birthday Party",
                "Electric Vehicle", "Surau", "Digital Order Kiosk",
                "Cashless Facility", "Dessert Center", "Breakfast", "McDelivery">>
      present == SelectSeq(keys, LAMBDA key :
                   \E i \in 1 .. Len(services) : services[i] = key)
  IN  IF present = <<>> THEN ""
      ELSE " " \o join(" ", [i \in 1 .. Len(present) |-> explanations[present[i]]])

\* Lines 48-50: one explanation sentence for each service that is a key of
\* the table, in the order of the services.
RECURSIVE Explain(_)
Explain(services) ==
  IF services = <<>> THEN ""
  ELSE (IF services[1] \in DOMAIN explanations
        THEN " " \o explanations[services[1]] ELSE "")
       \o Explain(Tail(services))

generate_outlet_summary(outlet) ==
  LET services == OrEmpty(outlet.services)
  IN  (outlet.name \o " is a McDonald's restaurant located at " \o outlet.address \o ".")
        \o (IF services # <<>>
            THEN " It offers the following services: " \o join(", ", services) \o "."
            ELSE "")
        \o Explain(services)

OutletVector(outlet_id, summary, embedding) ==
  [outlet_id |-> outlet_id, summary |-> summary, embedding |-> embedding]

\* ---------------------------------------------------------------- similarity
\* Embeddings have 4 components here (768 in the column type); none is the
\* zero vector, for which the cosine distance is not a number.
RECURSIVE Dot(_, _)
Dot(u, v) == IF u = <<>> THEN 0 ELSE u[1] * v[1] + Dot(Tail(u), Tail(v))

\* The cutoff test with > for >=.
AboveCutoffStrict(q, v) ==
  /\ Dot(q, v) >= 0
  /\ 100 * Dot(q, v) * Dot(q, v) > 9 * Dot(q, q) * Dot(v, v)

\* 1 - (embedding <=> query) >= 0.3, i.e. dot / (|q| |v|) >= 3/10
AboveCutoff(q, v) ==
  /\ Dot(q, v) >= 0
  /\ 100 * Dot(q, v) * Dot(q, v) >= 9 * Dot(q, q) * Dot(v, v)

\* u <=> q is at most v <=> q: the cosine of (u, q) is at least that of (v, q)
Closer(q, u, v) ==
  LET du == Dot(q, u)
      dv == Dot(q, v)
  IN  IF du >= 0 /\ dv >= 0 THEN du * du * Dot(v, v) >= dv * dv * Dot(u, u)
      ELSE IF du >= 0 THEN TRUE
      ELSE IF dv >= 0 THEN FALSE
      ELSE du * du * Dot(v, v) <= dv * dv * Dot(u, u)

\* api/chat.py lines 54-65: the rows of the similarity query, as outlet ids,
\* in every order ORDER BY allows (rows at equal distance come in any order).
SimilarityRows(tbl, vecs, q) ==
  LET kept == { k \in 1 .. Len(vecs) :
                  /\ vecs[k].outlet_id \in DOMAIN tbl
                  /\ AboveCutoff(q, vecs[k].embedding) }
      n    == Cardinality(kept)
  IN  { [x \in 1 .. n |-> vecs[f[x]].outlet_id] :
          f \in { g \in [1 .. n -> kept] :
                    /\ \A x, y \in 1 .. n : x # y => g[x] # g[y]
                    /\ \A x, y \in 1 .. n :
                         x < y => Closer(q, vecs[g[x]].embedding, vecs[g[y]].embedding) } }

\* ---------------------------------------------------------------- retrieval
\* What the embedding provider does with one call.
ProviderOutcomes ==
  { [ok |-> FALSE, values |-> <<>>] }
    \cup { [ok |-> TRUE, values |-> v] : v \in { <<1, 0, 0, 0>>, <<0, 1, 0, 0>> } }

\* healthy: every statement succeeds; queryFails: the similarity query raises
\* and the outlets table can still be read; unreachable: every statement raises.
StoreModes == {"healthy", "queryFails", "unreachable"}

\* utils/embedding.py get_query_embedding (used by api/chat.py)
get_query_embedding(outcome) ==
  IF outcome.ok THEN [raised |-> FALSE, value |-> outcome.values]
  ELSE [raised |-> FALSE, value |-> <<>>]

\* main.py get_query_embedding
main_get_query_embedding(outcome) ==
  IF outcome.ok THEN [raised |-> FALSE, value |-> outcome.values]
  ELSE [raised |-> TRUE, value |-> <<>>]

\* The embedding step of a handler that clears the vector index it reads.
ChatEmbedClearsIndex(v, mode, outcome) ==
  /\ chatPc = "idle"
  /\ variant' = v
  /\ storeMode' = mode
  /\ providerFailed' = ~outcome.ok
  /\ LET r == IF v = "api" THEN get_query_embedding(outcome)
              ELSE main_get_query_embedding(outcome)
     IN  /\ query_embedding' = r.value
         /\ chatPc' = IF r.raised THEN "except" ELSE "embedded"
  /\ vectors' = <<>>
  /\ UNCHANGED <<outlets, proximities, moves, builderVars, uploadVars, catchVars, ingestVars,
                 rows, result>>

\* Lines 50-52: db.begin() on the request's fresh session, then the embedding
\* of the query.
ChatEmbed(v, mode, outcome) ==
  /\ chatPc = "idle"
  /\ variant' = v
  /\ storeMode' = mode
  /\ providerFailed' = ~outcome.ok
  /\ LET r == IF v = "api" THEN get_query_embedding(outcome)
              ELSE main_get_query_embedding(outcome)
     IN  /\ query_embedding' = r.value
         /\ chatPc' = IF r.raised THEN "except" ELSE "embedded"
  /\ UNCHANGED <<dbVars, builderVars, uploadVars, catchVars, ingestVars, rows, result>>

\* The handler without the full listing: it returns the sentinel.
ChatFallbackSentinel ==
  /\ chatPc = "except"
  /\ IF storeMode = "unreachable"
     THEN chatPc' = "raised" /\ result' = result
     ELSE chatPc' = "returned" /\ result' = NO_RELEVANT
  /\ UNCHANGED <<dbVars, builderVars, uploadVars, catchVars, ingestVars, variant, storeMode, providerFailed,
                 query_embedding, rows>>

\* Lines 81-88: rollback, then the listing of every outlet.  With the store
\* unreachable the listing query raises inside the handler and the exception
\* leaves the function.
ChatFallback ==
  /\ chatPc = "except"
  /\ IF storeMode = "unreachable"
     THEN chatPc' = "raised" /\ result' = result
     ELSE chatPc' = "returned" /\ result' = FullListing(outlets)
  /\ UNCHANGED <<dbVars, builderVars, uploadVars, catchVars, ingestVars, variant, storeMode, providerFailed,
                 query_embedding, rows>>

\* The query step raising when no row is relevant.
ChatQueryEmptyRaises ==
  /\ chatPc = "embedded"
  /\ IF storeMode # "healthy" \/ query_embedding = <<>>
     THEN chatPc' = "except" /\ rows' = rows /\ result' = result
     ELSE \E r \in SimilarityRows(outlets, vectors, query_embedding) :
            /\ rows' = r
            /\ IF r = <<>>
               THEN chatPc' = "except" /\ result' = result
               ELSE /\ chatPc' = "returned"
                    /\ result' = join("\n", [x \in 1 .. Len(r) |-> RankedLine(outlets[r[x]])])
  /\ UNCHANGED <<dbVars, builderVars, uploadVars, catchVars, ingestVars, variant, storeMode, providerFailed,
                 query_embedding>>

\* Lines 54-79: the similarity query, the rendering of its rows, commit and
\* return.  The statement raises when the store fails and when the parameter
\* is the empty list, which the store cannot cast to a vector.
ChatQuery ==
  /\ chatPc = "embedded"
  /\ IF storeMode # "healthy" \/ query_embedding = <<>>
     THEN chatPc' = "except" /\ rows' = rows /\ result' = result
     ELSE \E r \in SimilarityRows(outlets, vectors, query_embedding) :
            /\ rows' = r
            /\ chatPc' = "returned"
            /\ result' = IF r # <<>>
                         THEN join("\n", [x \in 1 .. Len(r) |-> RankedLine(outlets[r[x]])])
                         ELSE NO_RELEVANT
  /\ UNCHANGED <<dbVars, builderVars, uploadVars, catchVars, ingestVars, variant, storeMode, providerFailed,
                 query_embedding>>

\* The service lists and the stored embeddings outlets can have.
ServiceChoices == { None, Some(<<>>), Some(<<"Drive-Thru", "Playland">>) }
StoredEmbeddings == { <<1, 0, 0, 0>>, <<3, 9, 3, 1>>, <<1, 4, 0, 0>> }

\* The rows upload_outlet_vectors leaves for the outlets of `has`, in id order.
RECURSIVE VectorRows(_, _, _, _)
VectorRows(tbl, has, emb, o) ==
  IF o > NumOutlets THEN <<>>
  ELSE (IF o \in has
        THEN <<OutletVector(o, generate_outlet_summary(tbl[o]), emb[o])>>
        ELSE <<>>) \o VectorRows(tbl, has, emb, o + 1)

\* Outlets as ingested and a vector index built for some of them.
InitChat ==
  /\ \E svc \in [Outlets -> ServiceChoices] :
       outlets = [o \in Outlets |->
                    OutletRow(o, [latitude |-> Some(315), longitude |-> Some(10170)], svc[o])]
  /\ \E has \in SUBSET Outlets, emb \in [Outlets -> StoredEmbeddings] :
       /\ \A o \in Outlets \ has : emb[o] = <<1, 0, 0, 0>>
       /\ vectors = VectorRows(outlets, has, emb, 1)
  /\ proximities = <<>>
  /\ moves = 0
  /\ BuilderIdle
  /\ ChatIdle
  /\ UploadIdle
  /\ CatchIdle
  /\ IngestIdle

NextChat ==
  \/ \E v \in {"api", "main"}, mode \in StoreModes, outcome \in ProviderOutcomes :
       ChatEmbed(v, mode, outcome)
  \/ ChatQuery
  \/ ChatFallback

SpecChat == InitChat /\ [][NextChat]_vars

\* ------------------------------------------------------ claims: the retrieval
Finished == chatPc \in {"returned", "raised"}
Healthy == ~providerFailed /\ storeMode = "healthy"

\* similarity(query, v) >= 0.3, for a query that was embedded
SimAtLeastCutoff(v) ==
  /\ Dot(query_embedding, v) > 0
  /\ 100 * Dot(query_embedding, v) * Dot(query_embedding, v)
       >= 9 * Dot(query_embedding, query_embedding) * Dot(v, v)

RelevantOutlets ==
  { o \in Outlets :
      \E k \in 1 .. Len(vectors) :
        vectors[k].outlet_id = o /\ SimAtLeastCutoff(vectors[k].embedding) }

EmbeddingOf(o) ==
  vectors[CHOOSE k \in 1 .. Len(vectors) : vectors[k].outlet_id = o].embedding

\* similarity(query, u) >= similarity(query, v), both positive
SimAtLeast(u, v) ==
  Dot(query_embedding, u) * Dot(query_embedding, u) * Dot(v, v)
    >= Dot(query_embedding, v) * Dot(query_embedding, v) * Dot(u, u)

\* C6: when the embedding provider call fails and the outlets table can be
\* read, the call returns the full listing of every outlet, whatever the
\* vector store holds; it returns neither the sentinel nor ranked rows.
C6_ProviderFailureGivesListing ==
  (providerFailed /\ storeMode # "unreachable" /\ Finished) =>
    /\ chatPc = "returned"
    /\ result = FullListing(outlets)
    /\ result # NO_RELEVANT
    /\ rows = <<>>

\* The provider failed in the copy that gets the empty list back, over a
\* healthy store holding a vector; the listing was returned.
C6_Witness ==
  /\ providerFailed /\ variant = "api" /\ storeMode = "healthy"
  /\ chatPc = "returned" /\ vectors # <<>>
  /\ result = FullListing(outlets)

\* C7: when embedding and query succeed and no stored vector has similarity
\* >= 0.3, the call returns exactly the sentinel, not the full listing; and
\* when nothing is relevant the full listing is returned only after an
\* exception (provider or store).
C7_EmptyIsSentinel ==
  (chatPc = "returned" /\ RelevantOutlets = {}) =>
    /\ Healthy => (result = NO_RELEVANT /\ result # FullListing(outlets))
    /\ (result = FullListing(outlets)) => (providerFailed \/ storeMode # "healthy")

\* A healthy call over a store whose vectors are all below the cutoff.
C7_Witness ==
  /\ chatPc = "returned" /\ Healthy
  /\ vectors # <<>> /\ RelevantOutlets = {}
  /\ result = NO_RELEVANT

\* C8: the call never raises, whatever the provider and the store do.
C8_NeverRaises == chatPc # "raised"

\* C9: a healthy call returns one line for each outlet that has a stored
\* vector with similarity >= 0.3 to the query, no other line, in
\* non-increasing similarity order.
C9_RankedExact ==
  (chatPc = "returned" /\ Healthy) =>
    /\ { rows[x] : x \in 1 .. Len(rows) } = RelevantOutlets
    /\ \A x, y \in 1 .. Len(rows) : x # y => rows[x] # rows[y]
    /\ \A x, y \in 1 .. Len(rows) :
         x < y => SimAtLeast(EmbeddingOf(rows[x]), EmbeddingOf(rows[y]))
    /\ rows # <<>> =>
         result = join("\n", [x \in 1 .. Len(rows) |-> RankedLine(outlets[rows[x]])])

\* A healthy call that kept two outlets of different similarity, one of them
\* exactly at 0.3, and left out an outlet whose vector is below the cutoff.
C9_Witness ==
  /\ chatPc = "returned" /\ Healthy
  /\ Len(rows) = 2
  /\ ~SimAtLeast(EmbeddingOf(rows[2]), EmbeddingOf(rows[1]))
  /\ 100 * Dot(query_embedding, EmbeddingOf(rows[2])) * Dot(query_embedding, EmbeddingOf(rows[2]))
       = 9 * Dot(query_embedding, query_embedding)
           * Dot(EmbeddingOf(rows[2]), EmbeddingOf(rows[2]))
  /\ Len(vectors) = 3

\* C10: a failure of the embedding provider reaches the caller of the embed
\* operation as an error, never as a returned vector value.
C10_FailureIsError == providerFailed => chatPc # "embedded"

\* ------------------------------------------------------------ vector upload
Range(f) == { f[x] : x \in DOMAIN f }

\* What a query of the session of p sees of outlet_vectors: the committed
\* rows, without those its open transaction has deleted.
VisibleVectors(p) == SelectSeq(vectors, LAMBDA r : r \notin udeleted[p])

\* db.query(OutletVector).filter_by(outlet_id=outlet.id).first()
HasVector(vecs, outlet_id) ==
  \E k \in 1 .. Len(vecs) : vecs[k].outlet_id = outlet_id

\* A table without the unique constraint.
UniqueViolationNever(vecs, record) == FALSE

\* models.py line 60: outlet_id is unique, the insert of a second row for an
\* outlet raises IntegrityError.
UniqueViolation(vecs, record) == HasVector(vecs, record.outlet_id)

\* upload_vector.py generate_embedding
generate_embedding(outcome) ==
  IF outcome.ok THEN [raised |-> FALSE, value |-> outcome.values]
  ELSE [raised |-> TRUE, value |-> <<>>]

\* What the embedding provider does with the summary of an outlet.
UploadOutcomes ==
  { [ok |-> FALSE, values |-> <<>>] }
    \cup { [ok |-> TRUE, values |-> v] : v \in { <<1, 0, 0, 0>>, <<1, 4, 0, 0>> } }

\* The start of a run that commits its delete of all vectors at once.
UploadStartCommitsDelete(p) ==
  /\ upc[p] \in {"idle", "done"}
  /\ uruns[p] < MaxUploads
  /\ \A q \in Procs \ {p} : udeleted[q] = {}
  /\ uruns' = [uruns EXCEPT ![p] = @ + 1]
  /\ vectors' = <<>>
  /\ udeleted' = [udeleted EXCEPT ![p] = {}]
  /\ uloaded' = [uloaded EXCEPT ![p] = AllOutlets(outlets)]
  /\ uidx' = [uidx EXCEPT ![p] = 1]
  /\ urecord' = [urecord EXCEPT ![p] = None]
  /\ ulog' = [ulog EXCEPT ![p] = <<>>]
  /\ upc' = [upc EXCEPT ![p] = "loop"]
  /\ UNCHANGED <<outlets, proximities, moves, builderVars, chatVars, catchVars, ingestVars>>

\* Lines 64-67: open a session, delete every vector row (in the transaction,
\* not committed), load all outlets.  The DELETE waits while another
\* transaction holds uncommitted deletes of the rows.
UploadStart(p) ==
  /\ upc[p] \in {"idle", "done"}
  /\ uruns[p] < MaxUploads
  /\ \A q \in Procs \ {p} : udeleted[q] = {}
  /\ uruns' = [uruns EXCEPT ![p] = @ + 1]
  /\ udeleted' = [udeleted EXCEPT ![p] = Range(vectors)]
  /\ uloaded' = [uloaded EXCEPT ![p] = AllOutlets(outlets)]
  /\ uidx' = [uidx EXCEPT ![p] = 1]
  /\ urecord' = [urecord EXCEPT ![p] = None]
  /\ ulog' = [ulog EXCEPT ![p] = <<>>]
  /\ upc' = [upc EXCEPT ![p] = "loop"]
  /\ UNCHANGED <<dbVars, builderVars, chatVars, catchVars, ingestVars>>

\* Lines 68-86: one outlet of the loop up to db.add().  When the loop ends
\* the script ends, and the session's open transaction is rolled back.
UploadOutlet(p, outcome) ==
  /\ upc[p] = "loop"
  /\ LET outlet  == uloaded[p][uidx[p]]
         last    == uidx[p] = Len(uloaded[p])
         exists  == HasVector(VisibleVectors(p), outlet.id)
         summary == generate_outlet_summary(outlet)
         r       == generate_embedding(outcome)
     IN  IF exists \/ r.raised
         THEN /\ ulog' = [ulog EXCEPT ![p] =
                            IF exists THEN @
                            ELSE Append(@, "Embedding failed for " \o outlet.name)]
              /\ uidx' = [uidx EXCEPT ![p] = @ + 1]
              /\ upc' = [upc EXCEPT ![p] = IF last THEN "done" ELSE "loop"]
              /\ udeleted' = [udeleted EXCEPT ![p] = IF last THEN {} ELSE @]
              /\ urecord' = urecord
         ELSE /\ urecord' = [urecord EXCEPT ![p] =
                               Some(OutletVector(outlet.id, summary, r.value))]
              /\ upc' = [upc EXCEPT ![p] = "commit"]
              /\ UNCHANGED <<ulog, uidx, udeleted>>
  /\ UNCHANGED <<dbVars, builderVars, chatVars, catchVars, ingestVars, uruns, uloaded>>

\* Lines 87-91: db.commit() writes the deletes and the new row in one
\* transaction; on IntegrityError the transaction is rolled back, its deletes
\* included.
UploadCommit(p) ==
  /\ upc[p] = "commit"
  /\ LET record  == urecord[p][1]
         visible == VisibleVectors(p)
         last    == uidx[p] = Len(uloaded[p])
     IN  /\ IF UniqueViolation(visible, record)
            THEN /\ vectors' = vectors
                 /\ ulog' = [ulog EXCEPT ![p] =
                               Append(@, "Failed to insert vector for outlet_id="
                                           \o ToString(record.outlet_id))]
            ELSE /\ vectors' = Append(visible, record)
                 /\ ulog' = ulog
         /\ udeleted' = [udeleted EXCEPT ![p] = {}]
         /\ urecord' = [urecord EXCEPT ![p] = None]
         /\ uidx' = [uidx EXCEPT ![p] = @ + 1]
         /\ upc' = [upc EXCEPT ![p] = IF last THEN "done" ELSE "loop"]
  /\ UNCHANGED <<outlets, proximities, moves, builderVars, chatVars, catchVars, ingestVars,
                 uruns, uloaded>>

\* One upload process over an index built earlier.
NextUpload ==
  \/ UploadStart(1)
  \/ \E outcome \in UploadOutcomes : UploadOutlet(1, outcome)
  \/ UploadCommit(1)

SpecUpload == InitChat /\ [][NextUpload]_vars

\* Outlets and, for some of them, a vector row of an earlier upload.
InitIndex ==
  /\ outlets = [o \in Outlets |->
                  OutletRow(o, [latitude |-> Some(315), longitude |-> Some(10170)],
                            Some(<<"Drive-Thru", "Playland">>))]
  /\ \E has \in SUBSET Outlets :
       vectors = VectorRows(outlets, has, [o \in Outlets |-> <<1, 4, 0, 0>>], 1)
  /\ proximities = <<>>
  /\ moves = 0
  /\ BuilderIdle
  /\ ChatIdle
  /\ UploadIdle
  /\ CatchIdle
  /\ IngestIdle

\* Two upload processes running at the same time.
NextUploadConc ==
  \E p \in {1, 2} :
    \/ UploadStart(p)
    \/ \E outcome \in UploadOutcomes : UploadOutlet(p, outcome)
    \/ UploadCommit(p)

SpecUploadConc == InitIndex /\ [][NextUploadConc]_vars

\* ---------------------------------------------------- claims: vector upload
\* C11: an upload run leaves the vector row of an outlet that already has one
\* as it is (same summary, same embedding): no step of a run removes or
\* replaces a committed row.
C11_ExistingVectorKept ==
  [][\A k \in 1 .. Len(vectors) :
       \E l \in 1 .. Len(vectors') : vectors'[l] = vectors[k]]_vars

\* C12: the committed vector store never holds two rows for one outlet id.
C12_OneVectorPerOutlet ==
  \A k, l \in 1 .. Len(vectors) :
    k # l => vectors[k].outlet_id # vectors[l].outlet_id

\* Both processes had a row for the same outlet to commit and one of them got
\* the IntegrityError.
C12_Witness ==
  /\ upc[1] = "done" /\ upc[2] = "done"
  /\ \E o \in Outlets :
       /\ ("Failed to insert vector for outlet_id=" \o ToString(o)) \in Range(ulog[2])
       /\ HasVector(vectors, o)

\* ------------------------------------------------------------ get_catchment
\* db.query(OutletProximity).filter_by(outlet_id=outlet_id).all()
ProximitiesOf(store, outlet_id) ==
  SelectSeq(store, LAMBDA p : p.outlet_id = outlet_id)

\* The distance of the last row for that target.
LastDistance(proxs, id) ==
  LET k == CHOOSE k \in 1 .. Len(proxs) :
             /\ proxs[k].intersecting_outlet_id = id
             /\ \A j \in k + 1 .. Len(proxs) : proxs[j].intersecting_outlet_id # id
  IN  proxs[k].distance_km

\* The distance of whatever row comes first.
FirstDistanceAnyRow(proxs, id) == proxs[1].distance_km

\* next(p.distance_km for p in proximities if p.intersecting_outlet_id == o.id):
\* the distance of the first row for that target.  Every id asked for is the
\* target of one of the rows, so the default None is never taken.
FirstDistance(proxs, id) ==
  LET k == CHOOSE k \in 1 .. Len(proxs) :
             /\ proxs[k].intersecting_outlet_id = id
             /\ \A j \in 1 .. k - 1 : proxs[j].intersecting_outlet_id # id
  IN  proxs[k].distance_km

\* The listed outlets without the coordinate condition.
NearbyOutletsUnfiltered(tbl, outlet_ids) ==
  { o \in DOMAIN tbl : o \in outlet_ids }

\* db.query(Outlet).filter(Outlet.id.in_(outlet_ids)).all(), kept by the
\* comprehension only with both coordinates.
NearbyOutlets(tbl, outlet_ids) ==
  { o \in DOMAIN tbl :
      /\ o \in outlet_ids
      /\ tbl[o].latitude # None
      /\ tbl[o].longitude # None }

\* The orders in which a query without ORDER BY can return a set of rows.
Orderings(S) ==
  { s \in [1 .. Cardinality(S) -> S] :
      \A i, j \in 1 .. Cardinality(S) : i # j => s[i] # s[j] }

\* GET /outlets/{outlet_id}/catchment
get_catchment(outlet_id) ==
  /\ LET proxs      == ProximitiesOf(proximities, outlet_id)
         outlet_ids == { proxs[k].intersecting_outlet_id : k \in 1 .. Len(proxs) }
     IN  \E nearby_outlets \in Orderings(NearbyOutlets(outlets, outlet_ids)) :
           catchment' =
             [k \in 1 .. Len(nearby_outlets) |->
                LET o == outlets[nearby_outlets[k]]
                IN  [id          |-> o.id,
                     name        |-> o.name,
                     latitude    |-> o.latitude,
                     longitude   |-> o.longitude,
                     distance_km |-> FirstDistance(proxs, o.id)]]
  /\ catchment_id' = outlet_id
  /\ UNCHANGED <<dbVars, builderVars, chatVars, uploadVars, ingestVars>>

\* Outlet 1 at the corner of the grid, the others anywhere or without
\* coordinates, nothing built yet.
InitGeo ==
  /\ \E f \in [Outlets -> Positions] :
       /\ f[1] = [latitude |-> Some(315), longitude |-> Some(10170)]
       /\ outlets = [o \in Outlets |-> OutletRow(o, f[o], None)]
  /\ proximities = <<>>
  /\ vectors = <<>>
  /\ moves = 0
  /\ BuilderIdle
  /\ ChatIdle
  /\ UploadIdle
  /\ CatchIdle
  /\ IngestIdle

\* The builder run after run, coordinates changing between runs, and the two
\* read endpoints called at any time; the chat's embedding call fails.
NextGeo ==
  \/ BuilderStart(1)
  \/ BuilderStep(1)
  \/ BuilderCommit(1)
  \/ \E o \in Outlets, pos \in Positions :
       pc[1] \in {"idle", "done"} /\ UpdateCoords(o, pos)
  \/ \E outlet_id \in Outlets : get_catchment(outlet_id)
  \/ ChatEmbed("api", "healthy", [ok |-> FALSE, values |-> <<>>])
  \/ ChatQuery
  \/ ChatFallback

SpecGeo == InitGeo /\ [][NextGeo]_vars

\* ------------------------------------------------------ claims: get_catchment
CatchmentIds == { catchment[k].id : k \in 1 .. Len(catchment) }

\* C13: get_catchment(X) returns exactly one entry for every outlet that is
\* the target of a stored edge from X and has both coordinates, with the
\* distance_km of an edge (X, that outlet), and no entry for any other outlet.
C13_CatchmentExact ==
  [][\A X \in Outlets :
       get_catchment(X) =>
         /\ CatchmentIds' = { t \in Outlets : Stored(X, t) /\ HasCoords(t) }
         /\ \A i, j \in 1 .. Len(catchment') :
              catchment'[i].id = catchment'[j].id => i = j
         /\ \A i \in 1 .. Len(catchment') :
              \E k \in 1 .. Len(proximities) :
                /\ proximities[k].outlet_id = X
                /\ proximities[k].intersecting_outlet_id = catchment'[i].id
                /\ proximities[k].distance_km = catchment'[i].distance_km]_vars

\* An outlet with two stored neighbours at different distances has been
\* queried, and a third outlet with coordinates is too far to be listed.
C13_Witness ==
  /\ catchment_id \in Outlets
  /\ Len(catchment) = 2
  /\ catchment[1].distance_km # catchment[2].distance_km
  /\ CatchmentIds = { t \in Outlets : Stored(catchment_id, t) /\ HasCoords(t) }

\* The listing lines of the outlets of `shown`, in id order.
RECURSIVE ListedLines(_, _)
ListedLines(shown, o) ==
  IF o > NumOutlets THEN <<>>
  ELSE (IF o \in shown
        THEN <<outlets[o].name \o ", Address: " \o outlets[o].address
                 \o ", Services: " \o join(", ", OrEmpty(outlets[o].services))>>
        ELSE <<>>) \o ListedLines(shown, o + 1)

\* C14: an outlet without latitude or longitude is never an endpoint of a row
\* the builder inserts and never an entry of a get_catchment result, and it is
\* a line of the listing the chat retrieval falls back to.
C14_NoCoordsOnlyListed ==
  [][/\ \A k \in 1 .. Len(pending'[1]) :
          \A e \in {pending'[1][k].outlet_id, pending'[1][k].intersecting_outlet_id} :
            outlets'[e].latitude # None /\ outlets'[e].longitude # None
     /\ \A X \in Outlets :
          get_catchment(X) => \A i \in 1 .. Len(catchment') : HasCoords(catchment'[i].id)
     /\ ChatFallback =>
          \E shown \in SUBSET Outlets :
            /\ { o \in Outlets : ~HasCoords(o) } \subseteq shown
            /\ result' = join("\n", ListedLines(shown, 1))]_vars

\* An outlet lost its coordinates after the builder stored an edge to it; the
\* source of that edge has been queried and the chat has fallen back.
C14_Witness ==
  /\ chatPc = "returned"
  /\ pc[1] = "done"
  /\ \E o \in Outlets :
       /\ ~HasCoords(o)
       /\ Stored(catchment_id, o)
       /\ o \notin CatchmentIds

\* ------------------------------------------- the embedding call as two steps
\* Lines 50-52 up to the request to the provider: embeddings() has been
\* called and has not returned.  No timeout is passed to it or set around it.
ChatSend(v, mode) ==
  /\ chatPc = "idle"
  /\ variant' = v
  /\ storeMode' = mode
  /\ chatPc' = "embedding"
  /\ UNCHANGED <<dbVars, builderVars, uploadVars, catchVars, ingestVars, providerFailed,
                 query_embedding, rows, result>>

\* The provider answers or fails, and the embedding function returns.
ChatReceive(outcome) ==
  /\ chatPc = "embedding"
  /\ providerFailed' = ~outcome.ok
  /\ LET r == IF variant = "api" THEN get_query_embedding(outcome)
              ELSE main_get_query_embedding(outcome)
     IN  /\ query_embedding' = r.value
         /\ chatPc' = IF r.raised THEN "except" ELSE "embedded"
  /\ UNCHANGED <<dbVars, builderVars, uploadVars, catchVars, ingestVars, variant, storeMode,
                 rows, result>>

NextChatLive ==
  \/ \E v \in {"api", "main"}, mode \in StoreModes : ChatSend(v, mode)
  \/ \E outcome \in ProviderOutcomes : ChatReceive(outcome)
  \/ ChatQuery
  \/ ChatFallback

\* The handler's own steps are taken when they can be; whether the provider
\* ever answers is up to the provider.
SpecChatLive ==
  InitChat /\ [][NextChatLive]_vars /\ WF_vars(ChatQuery) /\ WF_vars(ChatFallback)

\* ----------------------------------------------- claims: the retrieval, cont.
ViaFallback == chatPc = "returned" /\ (providerFailed \/ storeMode # "healthy")

\* C15: every line of the fallback listing equals the line the ranked path
\* renders for that outlet: name, address, and the service list only when the
\* outlet has at least one service tag.
C15_FallbackLineIsRankedLine ==
  ViaFallback =>
    result = join("\n", [o \in 1 .. NumOutlets |-> RankedLine(outlets[o])])

PositionOf(o) == CHOOSE k \in 1 .. Len(vectors) : vectors[k].outlet_id = o

\* C16: two kept outlets of equal similarity appear in the ranked output in
\* their storage order.
C16_TiesInStorageOrder ==
  (chatPc = "returned" /\ Healthy) =>
    \A x, y \in 1 .. Len(rows) :
      (/\ x < y
       /\ SimAtLeast(EmbeddingOf(rows[x]), EmbeddingOf(rows[y]))
       /\ SimAtLeast(EmbeddingOf(rows[y]), EmbeddingOf(rows[x])))
        => PositionOf(rows[x]) < PositionOf(rows[y])

\* C17: once the embedding call has been made, the retrieval returns, even if
\* the provider never answers (the outlets table being readable).
C17_ReturnsWithoutProvider ==
  (chatPc = "embedding" /\ storeMode # "unreachable") ~> (chatPc = "returned")

\* C18: no step of the retrieval, on any of its paths, changes the committed
\* contents of outlets, outlet_vectors or outlet_proximities.
C18_ReadOnly ==
  [][chatPc' # chatPc => UNCHANGED <<outlets, vectors, proximities>>]_vars

\* A ranked result was returned over a store holding a vector for every outlet.
C18_Witness ==
  /\ chatPc = "returned" /\ Healthy
  /\ rows # <<>>
  /\ Len(vectors) = NumOutlets

\* ------------------------------------------------------ summaries in uploads
\* The service lists of the outlets whose summaries are generated.
SummaryServices ==
  { None, Some(<<>>), Some(<<"Playland">>),
    Some(<<"WiFi", "Playland", "Drive-Thru">>), Some(<<"Drive-Thru", "WiFi">>) }

\* Outlets with any of these service lists and an empty vector index.
InitSummary ==
  /\ \E svc \in [Outlets -> SummaryServices] :
       outlets = [o \in Outlets |->
                    OutletRow(o, [latitude |-> Some(315), longitude |-> Some(10170)],
                              svc[o])]
  /\ vectors = <<>>
  /\ proximities = <<>>
  /\ moves = 0
  /\ BuilderIdle
  /\ ChatIdle
  /\ UploadIdle
  /\ CatchIdle
  /\ IngestIdle

SpecSummary == InitSummary /\ [][NextUpload]_vars

\* ------------------------------------------------------- claims: summaries
\* The text C19 describes for outlet o: the name/address sentence, the list of
\* all services if there is any, then the explanation of each service that
\* has one, in the order of the services.
ExpectedSummary(o) ==
  LET svc       == IF outlets[o].services = None THEN <<>> ELSE outlets[o].services[1]
      keyed     == SelectSeq(svc, LAMBDA x : x \in DOMAIN explanations)
      sentences == [k \in 1 .. Len(keyed) |-> explanations[keyed[k]]]
  IN  (outlets[o].name \o " is a McDonald's restaurant located at "
         \o outlets[o].address \o ".")
        \o (IF Len(svc) > 0
            THEN " It offers the following services: " \o join(", ", svc) \o "."
            ELSE "")
        \o (IF Len(keyed) > 0 THEN " " \o join(" ", sentences) ELSE "")

\* C19: the summary generate_outlet_summary gives for an outlet, as the
\* upload stores it, is the name/address sentence, then (only for a non-empty
\* service list) the sentence listing all services in stored order, then the
\* explanation sentence of each service that is a key of the table, in the
\* order of the services; identical outlet data give identical text.
C19_SummaryCanonical ==
  /\ \A k \in 1 .. Len(vectors) :
       vectors[k].summary = ExpectedSummary(vectors[k].outlet_id)
  /\ urecord[1] # None =>
       urecord[1][1].summary = ExpectedSummary(urecord[1][1].outlet_id)
  /\ \A a, b \in Outlets :
       (/\ outlets[a].name = outlets[b].name
        /\ outlets[a].address = outlets[b].address
        /\ outlets[a].services = outlets[b].services)
         => generate_outlet_summary(outlets[a]) = generate_outlet_summary(outlets[b])

\* Summaries were stored for an outlet whose keyed services are not in the
\* table's order and have an unkeyed one between them, and for an outlet
\* with no services.
C19_Witness ==
  /\ \E k \in 1 .. Len(vectors) :
       outlets[vectors[k].outlet_id].services = Some(<<"WiFi", "Playland", "Drive-Thru">>)
  /\ \E k \in 1 .. Len(vectors) :
       outlets[vectors[k].outlet_id].services \in {None, Some(<<>>)}

\* --------------------------------------------- claims: failures in the upload
EmbeddingFailed(o) ==
  ("Embedding failed for " \o outlets[o].name) \in Range(ulog[1])

\* C20: after an upload run, an outlet whose embedding call failed has no
\* vector, and every other outlet has exactly one committed vector, whose
\* summary is generate_outlet_summary of that outlet.
C20_FailureSkipped ==
  upc[1] = "done" =>
    \A o \in Outlets :
      IF EmbeddingFailed(o)
      THEN ~HasVector(vectors, o)
      ELSE /\ Cardinality({ k \in 1 .. Len(vectors) : vectors[k].outlet_id = o }) = 1
           /\ \A k \in 1 .. Len(vectors) :
                vectors[k].outlet_id = o =>
                  vectors[k].summary = generate_outlet_summary(outlets[o])

\* ------------------------------------------------- upload over a full index
\* Every outlet has a vector of an earlier upload.
InitFull ==
  /\ \E svc \in [Outlets -> ServiceChoices] :
       outlets = [o \in Outlets |->
                    OutletRow(o, [latitude |-> Some(315), longitude |-> Some(10170)],
                              svc[o])]
  /\ \E emb \in [Outlets -> StoredEmbeddings] :
       vectors = VectorRows(outlets, Outlets, emb, 1)
  /\ proximities = <<>>
  /\ moves = 0
  /\ BuilderIdle
  /\ ChatIdle
  /\ UploadIdle
  /\ CatchIdle
  /\ IngestIdle

SpecReindex == InitFull /\ [][NextUpload]_vars

\* ----------------------------------------- claims: the index during a rerun
\* C21: the committed vector index changes only when a vector insert commits
\* (so a run whose embedding calls all fail, delete included, leaves it as it
\* was), and the first insert a run commits leaves the index holding that one
\* row: the earlier vectors of all other outlets are gone with it.
C21_DeleteCommitsWithFirstInsert ==
  [][/\ vectors' # vectors => (upc[1] = "commit" /\ urecord[1] # None)
     /\ (upc[1] = "commit" /\ udeleted[1] = Range(vectors) /\ vectors' # vectors) =>
          /\ vectors' = <<urecord[1][1]>>
          /\ \A o \in Outlets \ {urecord[1][1].outlet_id} : ~HasVector(vectors', o)]_vars

\* In the middle of the first run over a full index, after its first commit:
\* the committed index holds fewer vectors than before the run.
C21_Witness ==
  /\ uruns[1] = 1
  /\ upc[1] = "loop"
  /\ vectors # <<>>
  /\ Len(vectors) < NumOutlets
  /\ \E o \in Outlets : EmbeddingFailed(o)

\* ---------------------------------------------------------- outlet ingestion
\* The elements the data file can hold: an outlet with services, one whose
\* services are missing, one without a name, and one that is no object.
RecordChoices ==
  { [dict |-> TRUE, name |-> Some("McDonald's Bangsar"), address |-> Some("Jalan Telawi"),
     latitude |-> Some(315), longitude |-> Some(10170),
     services |-> Some(<<"Drive-Thru", "Playland">>)],
    [dict |-> TRUE, name |-> Some("McDonald's Titiwangsa"), address |-> Some("Jalan Pahang"),
     latitude |-> None, longitude |-> None, services |-> None],
    [dict |-> TRUE, name |-> None, address |-> Some("Jalan Ampang"),
     latitude |-> Some(319), longitude |-> Some(10174), services |-> Some(<<>>)],
    [dict |-> FALSE, name |-> None, address |-> None,
     latitude |-> None, longitude |-> None, services |-> None] }

DataFiles == UNION { [1 .. n -> RecordChoices] : n \in 0 .. MaxRecords }

\* Lines 22-34: the Outlet built from one record; `services or []` stores a
\* missing list as [].  The id is given by the table's sequence at the insert.
OutletOf(outlet) ==
  [name |-> outlet.name, address |-> outlet.address,
   latitude |-> outlet.latitude, longitude |-> outlet.longitude,
   services |-> Some(OrEmpty(outlet.services))]

\* models.py lines 14-15: name and address are nullable=False.
NotNullViolation(objs) ==
  \E k \in 1 .. Len(objs) : objs[k].name = None \/ objs[k].address = None

\* The rows a commit of the added objects writes: the ids continue the
\* sequence after the ids of the rows there were before.
InsertedRows(objs) ==
  [i \in NumOutlets + 1 .. NumOutlets + Len(objs) |->
     LET obj == objs[i - NumOutlets]
     IN  [id |-> i, name |-> obj.name[1], address |-> obj.address[1],
          services |-> obj.services, latitude |-> obj.latitude,
          longitude |-> obj.longitude]]

\* Line 17: SessionLocal(), with the data loaded from the file.
IngestStart(data) ==
  /\ ipc = "idle"
  /\ idata' = data
  /\ ipending' = <<>>
  /\ ipc' = "delete"
  /\ UNCHANGED <<dbVars, builderVars, chatVars, uploadVars, catchVars>>

\* Line 19: DELETE FROM outlets in the session's transaction; the statement
\* can fail (connection lost, lock not granted).
IngestDelete(ok) ==
  /\ ipc = "delete"
  /\ ipc' = IF ok THEN "commit_delete" ELSE "except"
  /\ UNCHANGED <<dbVars, builderVars, chatVars, uploadVars, catchVars, idata, ipending>>

\* Line 20: the delete is committed; the rows of outlet_proximities and
\* outlet_vectors go with their outlets (ondelete="CASCADE").
IngestCommitDelete(ok) ==
  /\ ipc = "commit_delete"
  /\ IF ok
     THEN /\ outlets' = <<>>
          /\ proximities' = <<>>
          /\ vectors' = <<>>
          /\ ipc' = IF idata = <<>> THEN "commit" ELSE "loop"
     ELSE /\ UNCHANGED <<outlets, proximities, vectors>>
          /\ ipc' = "except"
  /\ UNCHANGED <<moves, builderVars, chatVars, uploadVars, catchVars, idata, ipending>>

\* Lines 21-35: one record of the loop; outlet.get raises on an element that
\* is no object.
IngestAdd ==
  /\ ipc = "loop"
  /\ LET outlet == idata[Len(ipending) + 1]
     IN  IF outlet.dict
         THEN /\ ipending' = Append(ipending, OutletOf(outlet))
              /\ ipc' = IF Len(ipending) + 1 = Len(idata) THEN "commit" ELSE "loop"
         ELSE /\ ipending' = ipending
              /\ ipc' = "except"
  /\ UNCHANGED <<dbVars, builderVars, chatVars, uploadVars, catchVars, idata>>

\* A commit that keeps the rows flushed before the one that fails.
IngestCommitKeepsFlushed(ok) ==
  /\ ipc = "commit"
  /\ IF ok /\ ~NotNullViolation(ipending)
     THEN /\ outlets' = InsertedRows(ipending)
          /\ ipending' = <<>>
          /\ ipc' = "done"
     ELSE /\ outlets' = InsertedRows(
                          SelectSeq(ipending, LAMBDA obj : obj.name # None /\ obj.address # None))
          /\ ipending' = ipending
          /\ ipc' = "except"
  /\ UNCHANGED <<proximities, vectors, moves, builderVars, chatVars, uploadVars,
                 catchVars, idata>>

\* Line 37: all added objects are inserted and committed in one transaction,
\* or the commit raises (a NULL name or address, or the store failing) and
\* nothing is written.
IngestCommit(ok) ==
  /\ ipc = "commit"
  /\ IF ok /\ ~NotNullViolation(ipending)
     THEN /\ outlets' = InsertedRows(ipending)
          /\ ipending' = <<>>
          /\ ipc' = "done"
     ELSE /\ outlets' = outlets
          /\ ipending' = ipending
          /\ ipc' = "except"
  /\ UNCHANGED <<proximities, vectors, moves, builderVars, chatVars, uploadVars,
                 catchVars, idata>>

\* Lines 39-43: rollback, warning, close; the function returns.
IngestExcept ==
  /\ ipc = "except"
  /\ ipending' = <<>>
  /\ ipc' = "failed"
  /\ UNCHANGED <<dbVars, builderVars, chatVars, uploadVars, catchVars, idata>>

NextIngest ==
  \/ \E data \in DataFiles : IngestStart(data)
  \/ \E ok \in BOOLEAN : IngestDelete(ok)
  \/ \E ok \in BOOLEAN : IngestCommitDelete(ok)
  \/ IngestAdd
  \/ \E ok \in BOOLEAN : IngestCommit(ok)
  \/ IngestExcept

\* One run of insert_outlets over outlets of an earlier run and their vectors.
SpecIngest == InitIndex /\ [][NextIngest]_vars

\* ------------------------------------------------- claims: outlet ingestion
\* The outlet rows there were before the run.
OldOutlets ==
  [o \in Outlets |->
     OutletRow(o, [latitude |-> Some(315), longitude |-> Some(10170)],
               Some(<<"Drive-Thru", "Playland">>))]

\* The table holds exactly one row per input record, with the record's values.
OneRowPerRecord ==
  /\ Cardinality(DOMAIN outlets) = Len(idata)
  /\ \A k \in 1 .. Len(idata) :
       \E i \in DOMAIN outlets :
         /\ i = NumOutlets + k
         /\ outlets[i].id = i
         /\ Some(outlets[i].name) = idata[k].name
         /\ Some(outlets[i].address) = idata[k].address
         /\ outlets[i].latitude = idata[k].latitude
         /\ outlets[i].longitude = idata[k].longitude
         /\ outlets[i].services =
              (IF idata[k].services = None THEN Some(<<>>) ELSE idata[k].services)

\* C22: after insert_outlets returns, the outlets table holds exactly one row
\* per input record (success) or no rows at all (failure); the old outlets
\* never survive a failed run.
C22_OldNeverSurvivesFailure ==
  /\ ipc = "done" => OneRowPerRecord
  /\ ipc = "failed" => outlets = <<>>

\* C22 as amended: after insert_outlets returns, the outlets table holds
\* exactly one row per input record (success), or no rows at all (a failure
\* after the delete was committed), or exactly the old rows (a failure of the
\* delete or of its commit); it never holds a mix of old and new rows, and
\* from the commit of the delete to the final commit it is empty.
C22_NewOrEmptyOrOld ==
  /\ ipc = "done" => OneRowPerRecord
  /\ ipc = "failed" => (outlets = <<>> \/ outlets = OldOutlets)
  /\ ipc \in {"loop", "commit"} => outlets = <<>>

\* A run whose second record has no name: the commit of the inserts failed
\* after the delete was committed, and the table is empty.
C22_Witness ==
  /\ ipc = "failed"
  /\ outlets = <<>>
  /\ Len(idata) = 2
  /\ idata[1].dict /\ idata[1].name # None
  /\ idata[2].dict /\ idata[2].name = None

\* ------------------------------------------- catchment over duplicate edges
\* Three outlets on the grid, each within the radius of outlet 1.
InitNear ==
  /\ outlets = [o \in Outlets |->
                  OutletRow(o, [latitude  |-> Some(315 + 4 * (IF o = 2 THEN 1 ELSE 0)),
                                longitude |-> Some(10170 + 4 * (IF o > 2 THEN 1 ELSE 0))],
                            None)]
  /\ proximities = <<>>
  /\ vectors = <<>>
  /\ moves = 0
  /\ BuilderIdle
  /\ ChatIdle
  /\ UploadIdle
  /\ CatchIdle
  /\ IngestIdle

\* Lines 42-59: the list is sent as the response and the request ends.
CatchmentRespond ==
  /\ catchment_id # 0
  /\ catchment_id' = 0
  /\ catchment' = <<>>
  /\ UNCHANGED <<dbVars, builderVars, chatVars, uploadVars, ingestVars>>

\* Two builder processes at the same time, outlet 2 moving on the grid, and
\* catchment requests, each answered before the next step of the others.
NextDup ==
  \/ \E p \in {1, 2} :
       /\ catchment_id = 0
       /\ \/ BuilderStart(p)
          \/ BuilderStep(p)
          \/ BuilderCommit(p)
  \/ \E pos \in Places : catchment_id = 0 /\ UpdateCoords(2, pos)
  \/ \E outlet_id \in Outlets : catchment_id = 0 /\ get_catchment(outlet_id)
  \/ CatchmentRespond

SpecDup == InitNear /\ [][NextDup]_vars

\* --------------------------------------- claims: catchment, duplicate edges
\* C23: get_catchment(X) lists each outlet at most once, also when several
\* edge rows are stored for one pair (X, Y), and the entry's distance_km is
\* the distance of the first of those rows.
C23_OnceWithFirstDistance ==
  [][\A X \in Outlets :
       get_catchment(X) =>
         /\ \A i, j \in 1 .. Len(catchment') :
              catchment'[i].id = catchment'[j].id => i = j
         /\ \A i \in 1 .. Len(catchment') :
              \E k \in 1 .. Len(proximities) :
                /\ proximities[k].outlet_id = X
                /\ proximities[k].intersecting_outlet_id = catchment'[i].id
                /\ \A j \in 1 .. k - 1 :
                     ~(/\ proximities[j].outlet_id = X
                       /\ proximities[j].intersecting_outlet_id = catchment'[i].id)
                /\ catchment'[i].distance_km = proximities[k].distance_km]_vars

\* The store holds two rows for a pair (X, Y) with different distances, and
\* the catchment of X lists Y once, with the distance of the earlier row.
C23_Witness ==
  \E k, l \in 1 .. Len(proximities) :
    /\ k < l
    /\ proximities[k].outlet_id = catchment_id
    /\ proximities[l].outlet_id = catchment_id
    /\ proximities[k].intersecting_outlet_id = proximities[l].intersecting_outlet_id
    /\ proximities[k].distance_km # proximities[l].distance_km
    /\ Cardinality({ i \in 1 .. Len(catchment) :
                       catchment[i].id = proximities[k].intersecting_outlet_id }) = 1
    /\ \E i \in 1 .. Len(catchment) :
         /\ catchment[i].id = proximities[k].intersecting_outlet_id
         /\ catchment[i].distance_km = proximities[k].distance_km

=============================================================================
